---- MODULE Spec2Model ----
(***************************************************************************)
(* Model of fissile's role manifest loader and signature/version engine    *)
(* (src/model/roles.go, with Release.LookupJob from src/unnamed/part_001). *)
(*                                                                         *)
(* Go strings are sequences of one-character strings, so that             *)
(* concatenation (fmt.Sprintf, hasher.Write) and byte-wise ordering        *)
(* (strings.Compare, sort.Strings) are computed, not assumed.              *)
(* A SHA-1 hex digest of the bytes x is the string "{" x "}": an injective *)
(* stand-in for a collision-free hash.                                     *)
(***************************************************************************)
EXTENDS Integers, Sequences, FiniteSets, TLC

VARIABLES
    pc,             \* "start" | "changed" | "done": position of the caller
    manifestFile,   \* the role manifest on disk: [status, doc]
    releases,       \* the []*Release argument of LoadRoleManifest
    rolesManifest,  \* LoadRoleManifest's local rolesManifest when it returns
    ret,            \* what LoadRoleManifest returned: [isNil, err]
    r1,             \* a Role whose signatures are computed
    r2,             \* the same Role after a change made by the caller
    op,             \* the change that produced r2
    fs,             \* the files next to the manifest: path -> [exists, readable, data]
    called,         \* the function whose outcomes v1 and v2 hold
    v1,             \* outcome of the call on r1 / m1: what it returned as [version, err],
                    \* and for a manifest its Roles after the call
    v2,             \* outcome of the call on r2 / m2
    m1,             \* a loaded RoleManifest, as it is before its version is asked for
    m2,             \* the same manifest with its Roles stored in another order
    extra           \* the salt given to GetRoleManifestDevPackageVersion

vars == <<pc, manifestFile, releases, rolesManifest, ret, r1, r2, op, fs, called, v1, v2, m1, m2, extra>>


(***************************************************************************)
(* Bounds of the model.                                                    *)
(***************************************************************************)
MaxRoles == 3        \* roles declared in a manifest (type filtering)
MaxReleases == 2     \* releases handed to the loader
MaxRefs == 2         \* job references of one role
MaxCfgRoles == 2     \* roles in the template-merging inputs
MaxJobs == 2         \* jobs of a role whose version is computed
MaxScripts == 2      \* script paths of such a role
MaxPkgs == 3         \* packages listed by the jobs of such a role, in total
MaxMRoles == 3       \* roles of a manifest whose version is computed

(***************************************************************************)
(* Strings.                                                                *)
(***************************************************************************)
\* The characters the model uses, in byte order.
Alphabet ==
    << "\n", " ", "-", ".", "/", "0", "1", "2", "3", "4", "5", "6", "7", "8", "9",
       ":", "A", "B", "C", "a", "b", "c", "d", "e", "h", "j", "k", "m", "o",
       "p", "q", "r", "s", "t", "x", "y", "z", "{", "}" >>

Code(c) == CHOOSE i \in 1..Len(Alphabet) : Alphabet[i] = c

Min(a, b) == IF a < b THEN a ELSE b

\* a < b in byte-wise lexicographic order: strings.Compare(a, b) < 0
StrLess(a, b) ==
    \E i \in 1..(Min(Len(a), Len(b)) + 1) :
        /\ \A j \in 1..(i - 1) : a[j] = b[j]
        /\ IF i > Len(a) THEN i <= Len(b)
           ELSE i <= Len(b) /\ Code(a[i]) < Code(b[i])

Empty == << >>
NL == << "\n" >>

\* hex.EncodeToString(sha1(bytes))
HexSHA1(bytes) == << "{" >> \o bytes \o << "}" >>

RECURSIVE Concat(_)
Concat(ss) == IF ss = << >> THEN << >> ELSE Head(ss) \o Concat(Tail(ss))

(***************************************************************************)
(* sort.Sort / sort.Strings on short slices.                               *)
(* Items are [key, val]; Less(i, j) is key[i] < key[j].                    *)
(* What sort.Sort does with elements that compare equal depends on the Go  *)
(* release the program is built with. On a slice of up to 12 elements,     *)
(* releases 1.7 to 1.18 make one Shell pass with gap 6 and then sort by    *)
(* insertion; the releases from 1.19 on sort by insertion alone, as do the *)
(* releases before 1.7 on up to 7 elements.                                *)
(***************************************************************************)
RECURSIVE SiftLeft(_, _)
SiftLeft(s, j) ==
    IF j > 1 /\ StrLess(s[j].key, s[j - 1].key)
    THEN SiftLeft([s EXCEPT ![j] = s[j - 1], ![j - 1] = s[j]], j - 1)
    ELSE s

RECURSIVE InsertionSortFrom(_, _)
InsertionSortFrom(s, i) ==
    IF i > Len(s) THEN s ELSE InsertionSortFrom(SiftLeft(s, i), i + 1)

InsertionSort(s) == InsertionSortFrom(s, 2)

\* what sort.Sort does before the insertion sort, by Go release
GoSorts == {"shell", "insertion"}

\* for i := 6; i < n; i++ { if Less(i, i-6) { Swap(i, i-6) } }, n <= 12
ShellPass(s) ==
    [i \in 1..Len(s) |->
        IF i + 6 <= Len(s) /\ StrLess(s[i + 6].key, s[i].key) THEN s[i + 6]
        ELSE IF i > 6 /\ StrLess(s[i].key, s[i - 6].key) THEN s[i - 6]
        ELSE s[i]]

\* sort.Sort on a slice of up to 12 elements
SortShort(s, gosort) == InsertionSort(IF gosort = "shell" THEN ShellPass(s) ELSE s)

Vals(s) == [i \in 1..Len(s) |-> s[i].val]

(***************************************************************************)
(* Errors: the format string and its arguments.                            *)
(***************************************************************************)
NoErr == [fmt |-> "", args |-> << >>]
Errorf(f, a) == [fmt |-> f, args |-> a]

ErrReadFile == "open %s: no such file or directory"
ErrYaml == "yaml: unmarshal error"
ErrLoadedTwice == "Error - release %s has been loaded more than once"
ErrNotLoaded == "Error - release %s has not been loaded and is referenced by job %s in role %s"
ErrNoJob == "Cannot find job %s in release"

(***************************************************************************)
(* Data model.                                                             *)
(***************************************************************************)
boshTaskType == << "b", "o", "s", "h", "-", "t", "a", "s", "k" >>
boshType == << "b", "o", "s", "h" >>

\* map[string]string: nil, or a function from keys to values
NilMap == [isNil |-> TRUE, m |-> << >>]
MkMap(f) == [isNil |-> FALSE, m |-> f]
EmptyMap == MkMap(<< >>)

\* *configuration
NilCfg == [isNil |-> TRUE, Templates |-> NilMap]
MkCfg(t) == [isNil |-> FALSE, Templates |-> t]

\* Role.rolesManifest: nil, or the manifest whose path the role can reach
NilRef == [isNil |-> TRUE, manifestFilePath |-> << >>]
BackRef(path) == [isNil |-> FALSE, manifestFilePath |-> path]

Package(name, sha) == [Name |-> name, SHA1 |-> sha]
Job(name, sha, pkgs) == [Name |-> name, SHA1 |-> sha, Packages |-> pkgs]
NoJob == Job(<< >>, << >>, << >>)
Release(name, jobs) == [Name |-> name, Jobs |-> jobs]
RoleJob(name, rel) == [Name |-> name, ReleaseName |-> rel]

\* a Role as yaml.Unmarshal leaves it
DeclaredRole(name, type, refs, cfg) ==
    [ Name |-> name, Jobs |-> << >>, EnvironScripts |-> << >>, Scripts |-> << >>,
      PostConfigScripts |-> << >>, Type |-> type, JobNameList |-> refs,
      Configuration |-> cfg, rolesManifest |-> NilRef ]

ZeroManifest == [Roles |-> << >>, Configuration |-> NilCfg, manifestFilePath |-> << >>]

(***************************************************************************)
(* Release.LookupJob                                                       *)
(***************************************************************************)
RECURSIVE LookupJobFrom(_, _, _)
LookupJobFrom(jobs, i, jobName) ==
    IF i > Len(jobs) THEN [job |-> NoJob, err |-> Errorf(ErrNoJob, << jobName >>)]
    ELSE IF jobs[i].Name = jobName THEN [job |-> jobs[i], err |-> NoErr]
    ELSE LookupJobFrom(jobs, i + 1, jobName)

LookupJobLast(release, jobName) ==
    LET hits == {i \in 1..Len(release.Jobs) : release.Jobs[i].Name = jobName}
    IN IF hits = {} THEN [job |-> NoJob, err |-> Errorf(ErrNoJob, << jobName >>)]
       ELSE [job |-> release.Jobs[CHOOSE i \in hits : \A k \in hits : k <= i], err |-> NoErr]

LookupJob(release, jobName) == LookupJobFrom(release.Jobs, 1, jobName)

(***************************************************************************)
(* LoadRoleManifest                                                        *)
(***************************************************************************)
\* the mappedReleases loop
RECURSIVE MapReleasesFrom(_, _, _)
MapReleasesFrom(rels, i, mapped) ==
    IF i > Len(rels) THEN [mapped |-> mapped, err |-> NoErr]
    ELSE IF rels[i].Name \in DOMAIN mapped
         THEN [mapped |-> mapped, err |-> Errorf(ErrLoadedTwice, << rels[i].Name >>)]
    ELSE MapReleasesFrom(rels, i + 1, mapped @@ (rels[i].Name :> rels[i]))

MapReleasesLastWins(rels) ==
    [ mapped |-> [n \in {rels[i].Name : i \in 1..Len(rels)} |->
                     rels[CHOOSE i \in 1..Len(rels) :
                            /\ rels[i].Name = n
                            /\ \A k \in 1..Len(rels) : rels[k].Name = n => k <= i]],
      err |-> NoErr ]

MapReleases(rels) == MapReleasesFrom(rels, 1, << >>)

IsBoshType(t) == t = Empty \/ t = boshTaskType \/ t = boshType

\* the back-to-front removal loop; i is the 1-based loop index
RECURSIVE FilterRolesFrom(_, _)
FilterRolesFrom(roles, i) ==
    IF i < 1 THEN roles
    ELSE IF ~IsBoshType(roles[i].Type)
         THEN FilterRolesFrom(SubSeq(roles, 1, i - 1) \o SubSeq(roles, i + 1, Len(roles)), i - 1)
         ELSE FilterRolesFrom(roles, i - 1)

\* a front-to-back removal that steps over the element following a removed one
RECURSIVE FilterRolesForward(_, _)
FilterRolesForward(roles, i) ==
    IF i > Len(roles) THEN roles
    ELSE IF ~IsBoshType(roles[i].Type)
         THEN FilterRolesForward(SubSeq(roles, 1, i - 1) \o SubSeq(roles, i + 1, Len(roles)), i + 1)
         ELSE FilterRolesForward(roles, i + 1)

FilterRolesSkipping(roles) == FilterRolesForward(roles, 1)

FilterRoles(roles) == FilterRolesFrom(roles, Len(roles))

\* the two nil checks on rolesManifest.Configuration
DefaultConfiguration(cfg) ==
    IF cfg.isNil \/ cfg.Templates.isNil THEN MkCfg(EmptyMap) ELSE cfg

MergeGlobalWins(role, globalTemplates) ==
    LET own == IF role.Configuration.isNil \/ role.Configuration.Templates.isNil
               THEN << >> ELSE role.Configuration.Templates.m
        glob == globalTemplates.m
    IN [role EXCEPT !.Configuration =
           MkCfg(MkMap([k \in DOMAIN glob \cup DOMAIN own |->
                           IF k \in DOMAIN glob THEN glob[k] ELSE own[k]]))]

\* Role.calculateRoleConfigurationTemplates, given r.rolesManifest.Configuration.Templates
calculateRoleConfigurationTemplates(role, globalTemplates) ==
    LET own == IF role.Configuration.isNil \/ role.Configuration.Templates.isNil
               THEN << >> ELSE role.Configuration.Templates.m
        glob == globalTemplates.m
        roleConfigs == [k \in DOMAIN glob \cup DOMAIN own |->
                           IF k \in DOMAIN own THEN own[k] ELSE glob[k]]
    IN [role EXCEPT !.Configuration = MkCfg(MkMap(roleConfigs))]

\* the loop over role.JobNameList
RECURSIVE ResolveJobs(_, _, _)
ResolveJobs(role, mapped, i) ==
    IF i > Len(role.JobNameList) THEN [role |-> role, err |-> NoErr]
    ELSE LET roleJob == role.JobNameList[i]
         IN IF roleJob.ReleaseName \notin DOMAIN mapped
            THEN [ role |-> role,
                   err |-> Errorf(ErrNotLoaded, << roleJob.ReleaseName, roleJob.Name, role.Name >>) ]
            ELSE LET found == LookupJob(mapped[roleJob.ReleaseName], roleJob.Name)
                 IN IF found.err # NoErr THEN [role |-> role, err |-> found.err]
                    ELSE ResolveJobs([role EXCEPT !.Jobs = Append(@, found.job)], mapped, i + 1)

\* the loop over rolesManifest.Roles
RECURSIVE ProcessRoles(_, _, _)
ProcessRoles(rm, mapped, i) ==
    IF i > Len(rm.Roles) THEN [rm |-> rm, err |-> NoErr]
    ELSE LET bound == [rm.Roles[i] EXCEPT !.rolesManifest = BackRef(rm.manifestFilePath),
                                          !.Jobs = << >>]
             res == ResolveJobs(bound, mapped, 1)
         IN IF res.err # NoErr
            THEN [rm |-> [rm EXCEPT !.Roles[i] = res.role], err |-> res.err]
            ELSE ProcessRoles(
                    [rm EXCEPT !.Roles[i] =
                        calculateRoleConfigurationTemplates(res.role, rm.Configuration.Templates)],
                    mapped, i + 1)

\* LoadRoleManifest(manifestFilePath, releases): what it returns and the state of
\* its local rolesManifest at that point
LoadRoleManifest(path, file, rels) ==
    IF file.status = "unreadable"
    THEN [ret |-> [isNil |-> TRUE, err |-> Errorf(ErrReadFile, << path >>)], rm |-> ZeroManifest]
    ELSE LET mr == MapReleases(rels)
         IN IF mr.err # NoErr
            THEN [ret |-> [isNil |-> TRUE, err |-> mr.err], rm |-> ZeroManifest]
            ELSE IF file.status = "malformed"
            THEN [ ret |-> [isNil |-> TRUE, err |-> Errorf(ErrYaml, << >>)],
                   rm |-> [ZeroManifest EXCEPT !.manifestFilePath = path] ]
            ELSE LET parsed == [file.doc EXCEPT !.manifestFilePath = path]
                     kept == [parsed EXCEPT !.Roles = FilterRoles(@),
                                            !.Configuration = DefaultConfiguration(@)]
                     done == ProcessRoles(kept, mr.mapped, 1)
                 IN [ret |-> [isNil |-> done.err # NoErr, err |-> done.err], rm |-> done.rm]

(***************************************************************************)
(* Signature / version engine.                                             *)
(***************************************************************************)
ErrOpen == "open %s: no such file or directory"
ErrRead == "read %s: is a directory"

\* the orders in which a range loop may visit the keys of a Go map
MapOrders(f) ==
    {o \in [1..Cardinality(DOMAIN f) -> DOMAIN f] :
        \A a, b \in 1..Cardinality(DOMAIN f) : o[a] = o[b] => a = b}

\* sort.Strings: strings that compare equal are the same string, so the result is
\* that of every Go release
SortStrings(ss) == Vals(InsertionSort([i \in 1..Len(ss) |-> [key |-> ss[i], val |-> ss[i]]]))

IsAbs(path) == Len(path) > 0 /\ path[1] = "/"

\* one turn of the loop of filepath.Clean over path: st is [r, out, dotdot], the
\* next character to read, the buffer written so far and the length up to which the
\* buffer may not be taken back
CleanStep(path, rooted, st) ==
    LET n == Len(path)
        r == st.r
        out == st.out
        AtEnd(i) == i > n \/ path[i] = "/"
    IN IF path[r] = "/" THEN [st EXCEPT !.r = r + 1]
       ELSE IF path[r] = "." /\ AtEnd(r + 1) THEN [st EXCEPT !.r = r + 1]
       ELSE IF path[r] = "." /\ path[r + 1] = "." /\ AtEnd(r + 2)
       THEN IF Len(out) > st.dotdot
            THEN LET w == CHOOSE k \in st.dotdot..(Len(out) - 1) :
                              /\ k = st.dotdot \/ out[k + 1] = "/"
                              /\ \A l \in (k + 1)..(Len(out) - 1) : out[l + 1] # "/"
                 IN [st EXCEPT !.r = r + 2, !.out = SubSeq(out, 1, w)]
            ELSE IF ~rooted
            THEN LET up == (IF Len(out) > 0 THEN out \o << "/" >> ELSE out) \o << ".", "." >>
                 IN [r |-> r + 2, out |-> up, dotdot |-> Len(up)]
            ELSE [st EXCEPT !.r = r + 2]
       ELSE LET end == CHOOSE i \in r..(n + 1) : AtEnd(i) /\ \A l \in r..(i - 1) : ~AtEnd(l)
                sep == IF (rooted /\ Len(out) # 1) \/ (~rooted /\ Len(out) # 0)
                       THEN << "/" >> ELSE << >>
            IN [st EXCEPT !.r = end, !.out = out \o sep \o SubSeq(path, r, end - 1)]

RECURSIVE CleanLoop(_, _, _)
CleanLoop(path, rooted, st) ==
    IF st.r > Len(path) THEN st.out ELSE CleanLoop(path, rooted, CleanStep(path, rooted, st))

\* filepath.Clean
Clean(path) ==
    IF path = << >> THEN << "." >>
    ELSE LET rooted == path[1] = "/"
             out == CleanLoop(path, rooted,
                              IF rooted THEN [r |-> 2, out |-> << "/" >>, dotdot |-> 1]
                              ELSE [r |-> 1, out |-> << >>, dotdot |-> 0])
         IN IF out = << >> THEN << "." >> ELSE out

\* filepath.Dir: Clean of the path up to and including its last separator
Dir(path) ==
    LET slashes == {i \in 1..Len(path) : path[i] = "/"}
        last == IF slashes = {} THEN 0 ELSE CHOOSE i \in slashes : \A k \in slashes : k <= i
    IN Clean(SubSeq(path, 1, last))

\* filepath.Join(dir, name): Clean of the elements from the first non-empty one on
Join(dir, name) ==
    IF dir = << >> /\ name = << >> THEN << >>
    ELSE Clean(IF dir # << >> THEN dir \o << "/" >> \o name ELSE name)

\* Role.GetScriptPaths: script -> path of the file next to the manifest
GetScriptPaths(r) ==
    LET all == r.EnvironScripts \o r.Scripts \o r.PostConfigScripts
        rel == {all[i] : i \in {k \in 1..Len(all) : ~IsAbs(all[k])}}
    IN [script \in rel |-> Join(Dir(r.rolesManifest.manifestFilePath), script)]

\* the loop of GetScriptSignatures over the sorted file names: the bytes written to
\* the hasher, and the error of the first file that cannot be opened or cannot be
\* read to its end
RECURSIVE HashScripts(_, _, _, _)
HashScripts(scripts, i, files, written) ==
    IF i > Len(scripts) THEN [bytes |-> written, err |-> NoErr]
    ELSE LET named == written \o scripts[i]
         IN IF scripts[i] \notin DOMAIN files \/ ~files[scripts[i]].exists
            THEN [bytes |-> named, err |-> Errorf(ErrOpen, << scripts[i] >>)]
            ELSE LET copied == named \o files[scripts[i]].data
                 IN IF ~files[scripts[i]].readable
                    THEN [bytes |-> copied, err |-> Errorf(ErrRead, << scripts[i] >>)]
                    ELSE HashScripts(scripts, i + 1, files, copied)

\* Role.GetScriptSignatures; order is the order in which the range loop visits paths
GetScriptSignatures(r, files, order) ==
    LET Scripts(paths) == SortStrings([i \in 1..Len(order) |-> paths[order[i]]])
        Sum(h) == IF h.err # NoErr THEN [version |-> << >>, err |-> h.err]
                  ELSE [version |-> HexSHA1(h.bytes), err |-> NoErr]
    IN Sum(HashScripts(Scripts(GetScriptPaths(r)), 1, files, << >>))

\* the bytes GetTemplateSignatures writes to its hasher
TemplateBytes(templates, order) ==
    Concat(SortStrings([i \in 1..Len(order) |->
                           order[i] \o << ":", " " >> \o templates[order[i]]]))

\* Role.GetTemplateSignatures; order is the order in which the range loop visits
\* r.Configuration.Templates
GetTemplateSignatures(r, order) ==
    [version |-> HexSHA1(TemplateBytes(r.Configuration.Templates.m, order)), err |-> NoErr]

\* Packages.Less compares the packages' names
PackagesLessKey(pkg) == pkg.Name

\* sort.Sort(packages)
SortPackages(packages, gosort) ==
    Vals(SortShort([i \in 1..Len(packages) |->
                      [key |-> PackagesLessKey(packages[i]), val |-> packages[i]]], gosort))

\* the packages of the jobs, each listed once
RECURSIVE Dedupe(_)
Dedupe(packages) ==
    IF packages = << >> THEN << >>
    ELSE LET rest == Dedupe(SubSeq(packages, 1, Len(packages) - 1))
             last == packages[Len(packages)]
         IN IF \E i \in 1..Len(rest) : rest[i] = last THEN rest ELSE Append(rest, last)

AllPackagesDeduped(jobs) == Dedupe(Concat([i \in 1..Len(jobs) |-> jobs[i].Packages]))

\* packages = append(packages, job.Packages...) over the jobs
AllPackages(jobs) == Concat([i \in 1..Len(jobs) |-> jobs[i].Packages])

\* roleSignature = fmt.Sprintf("%s\n%s", roleSignature, x.SHA1) over a slice
RECURSIVE AppendSHA1s(_, _)
AppendSHA1s(sig, items) ==
    IF items = << >> THEN sig
    ELSE AppendSHA1s(sig \o NL \o Head(items).SHA1, Tail(items))

JobsSortedBySHA1(jobs) ==
    Vals(InsertionSort([i \in 1..Len(jobs) |-> [key |-> jobs[i].SHA1, val |-> jobs[i]]]))

\* the jobs in the order in which their checksums enter the signature
JobsInSignatureOrder(jobs) == jobs

\* the signature with the script and template digests left out when there is
\* nothing to hash
RoleSignatureIfAny(r, files, scriptOrder, templateOrder, gosort) ==
    LET withJobs == AppendSHA1s(<< >>, JobsInSignatureOrder(r.Jobs))
        withPkgs == AppendSHA1s(withJobs, SortPackages(AllPackages(r.Jobs), gosort))
        scriptSig == GetScriptSignatures(r, files, scriptOrder)
        withScripts == IF DOMAIN GetScriptPaths(r) = {} THEN withPkgs
                       ELSE withPkgs \o NL \o scriptSig.version
    IN IF scriptSig.err # NoErr THEN [sig |-> << >>, err |-> scriptSig.err]
       ELSE IF /\ ~r.Configuration.isNil /\ ~r.Configuration.Templates.isNil
               /\ DOMAIN r.Configuration.Templates.m # {}
       THEN [ sig |-> withScripts \o NL \o GetTemplateSignatures(r, templateOrder).version,
              err |-> NoErr ]
       ELSE [sig |-> withScripts, err |-> NoErr]

\* the string GetRoleDevVersion hashes, or the error it returns
RoleSignature(r, files, scriptOrder, templateOrder, gosort) ==
    LET withJobs == AppendSHA1s(<< >>, JobsInSignatureOrder(r.Jobs))
        withPkgs == AppendSHA1s(withJobs, SortPackages(AllPackages(r.Jobs), gosort))
        WithTemplates(withScripts) ==
            IF ~r.Configuration.isNil /\ ~r.Configuration.Templates.isNil
            THEN [ sig |-> withScripts \o NL \o GetTemplateSignatures(r, templateOrder).version,
                   err |-> NoErr ]
            ELSE [sig |-> withScripts, err |-> NoErr]
        WithScripts(scriptSig) ==
            IF scriptSig.err # NoErr THEN [sig |-> << >>, err |-> scriptSig.err]
            ELSE WithTemplates(withPkgs \o NL \o scriptSig.version)
    IN WithScripts(GetScriptSignatures(r, files, scriptOrder))

\* Role.GetRoleDevVersion
GetRoleDevVersion(r, files, scriptOrder, templateOrder, gosort) ==
    LET Sum(s) == IF s.err # NoErr THEN [version |-> << >>, err |-> s.err]
                  ELSE [version |-> HexSHA1(s.sig), err |-> NoErr]
    IN Sum(RoleSignature(r, files, scriptOrder, templateOrder, gosort))

ScriptOrders(r) == MapOrders(GetScriptPaths(r))
TemplateOrders(r) ==
    IF r.Configuration.isNil THEN {<< >>} ELSE MapOrders(r.Configuration.Templates.m)

\* Roles.Less compares the roles' names
RolesLessKey(role) == role.Name

\* roles := append(Roles{}, m.Roles...); sort.Sort(roles)
SortedRolesCopy(roles, gosort) ==
    Vals(SortShort([i \in 1..Len(roles) |-> [key |-> RolesLessKey(roles[i]), val |-> roles[i]]],
                   gosort))

\* the loop of GetRoleManifestDevPackageVersion over the sorted roles; orders[i] is
\* the pair of map orders met while role i is hashed
RECURSIVE HashRoles(_, _, _, _, _, _)
HashRoles(roles, i, files, orders, written, gosort) ==
    IF i > Len(roles) THEN [bytes |-> written, err |-> NoErr]
    ELSE LET Write(v) == IF v.err # NoErr THEN [bytes |-> written, err |-> v.err]
                         ELSE HashRoles(roles, i + 1, files, orders, written \o v.version,
                                        gosort)
         IN Write(GetRoleDevVersion(roles[i], files, orders[i][1], orders[i][2], gosort))

RoleOrders(roles) ==
    {os \in [1..Len(roles) ->
                UNION {ScriptOrders(roles[i]) \X TemplateOrders(roles[i]) : i \in 1..Len(roles)}] :
        \A i \in 1..Len(roles) :
            os[i][1] \in ScriptOrders(roles[i]) /\ os[i][2] \in TemplateOrders(roles[i])}

\* RoleManifest.GetRoleManifestDevPackageVersion(extra); after is m.Roles afterwards
GetRoleManifestDevPackageVersion(m, salt, files, orders, gosort) ==
    LET Sum(h) == IF h.err # NoErr THEN [version |-> << >>, err |-> h.err, after |-> m.Roles]
                  ELSE [version |-> HexSHA1(h.bytes), err |-> NoErr, after |-> m.Roles]
    IN Sum(HashRoles(SortedRolesCopy(m.Roles, gosort), 1, files, orders, salt, gosort))

(***************************************************************************)
(* Inputs of the loader.                                                   *)
(***************************************************************************)
SeqsUpTo(S, n) == UNION {[1..k -> S] : k \in 0..n}

Digits == << "1", "2", "3", "4", "5", "6", "7", "8", "9" >>
RoleName(i) == << "r", Digits[i] >>

ManifestPath == << "d", "/", "m" >>

\* release A holds two jobs named j; release A2 is another release named A
RelA == Release(<< "A" >>, << Job(<< "j" >>, << "1" >>, << >>),
                             Job(<< "k" >>, << "2" >>, << >>),
                             Job(<< "j" >>, << "3" >>, << >>) >>)
RelB == Release(<< "B" >>, << Job(<< "j" >>, << "4" >>, << >>) >>)
RelA2 == Release(<< "A" >>, << Job(<< "k" >>, << "5" >>, << >>) >>)
ReleaseSet == {RelA, RelB, RelA2}

\* references: resolvable ones, a job missing from a loaded release, an unknown release
RefSet == { RoleJob(<< "j" >>, << "A" >>), RoleJob(<< "k" >>, << "A" >>),
            RoleJob(<< "j" >>, << "B" >>), RoleJob(<< "z" >>, << "A" >>),
            RoleJob(<< "j" >>, << "C" >>) }

TypeSet == {Empty, boshType, boshTaskType, << "d", "o", "c", "k", "e", "r" >>}
TypeRefs == {<< RoleJob(<< "j" >>, << "A" >>) >>, << RoleJob(<< "z" >>, << "A" >>) >>}

KeySet == {<< "a" >>, << "b" >>}
ValSet == {<< "x" >>, << "y" >>}
MapSet == {MkMap(f) : f \in UNION {[D -> ValSet] : D \in SUBSET KeySet}}
ConfigSet == {NilCfg, MkCfg(NilMap)} \cup {MkCfg(t) : t \in MapSet}

Doc(roles, cfg) == [Roles |-> roles, Configuration |-> cfg, manifestFilePath |-> << >>]
File(status, doc) == [status |-> status, doc |-> doc]

\* manifests whose roles vary in type
TypeInputs ==
    { File("ok", Doc([i \in 1..Len(ts) |->
                         DeclaredRole(RoleName(i), ts[i][1], ts[i][2], NilCfg)], NilCfg)) :
        ts \in SeqsUpTo(TypeSet \X TypeRefs, MaxRoles) }

\* manifests of one role whose job references vary
JobInputs ==
    { File(st, Doc(<< DeclaredRole(RoleName(1), boshType, refs, NilCfg) >>, NilCfg)) :
        st \in {"ok", "unreadable", "malformed"}, refs \in SeqsUpTo(RefSet, MaxRefs) }

\* manifests whose global and role templates vary
TemplateInputs ==
    { File("ok", Doc([i \in 1..Len(cs) |->
                         DeclaredRole(RoleName(i), Empty, << RoleJob(<< "k" >>, << "A" >>) >>, cs[i])],
                     g)) :
        g \in ConfigSet, cs \in SeqsUpTo(ConfigSet, MaxCfgRoles) \ {<< >>} }

NoResult == [version |-> << >>, err |-> NoErr, after |-> << >>]
NoOp == [kind |-> "none", i |-> 0, j |-> 0]
NoRet == [isNil |-> TRUE, err |-> NoErr]
NoRole == DeclaredRole(<< >>, << >>, << >>, NilCfg)
NoFiles == << >>

RoleIdle ==
    /\ r1 = NoRole /\ r2 = NoRole /\ fs = NoFiles

ManifestIdle == m1 = ZeroManifest /\ m2 = ZeroManifest /\ extra = << >>

LoadIdle ==
    /\ manifestFile = File("ok", Doc(<< >>, NilCfg)) /\ releases = << >>
    /\ rolesManifest = ZeroManifest /\ ret = NoRet

Init ==
    /\ pc = "start"
    /\ \/ manifestFile \in TypeInputs /\ releases = << RelA, RelB >>
       \/ manifestFile \in JobInputs /\ releases \in SeqsUpTo(ReleaseSet, MaxReleases)
       \/ manifestFile \in TemplateInputs /\ releases = << RelA, RelB >>
    /\ rolesManifest = ZeroManifest
    /\ ret = NoRet
    /\ op = NoOp /\ called = "none" /\ v1 = NoResult /\ v2 = NoResult
    /\ RoleIdle
    /\ ManifestIdle

\* the caller runs LoadRoleManifest(ManifestPath, releases)
Load ==
    /\ pc = "start"
    /\ LET res == LoadRoleManifest(ManifestPath, manifestFile, releases)
       IN /\ ret' = res.ret
          /\ rolesManifest' = res.rm
    /\ pc' = "done"
    /\ UNCHANGED <<manifestFile, releases, r1, r2, op, fs, called, v1, v2, m1, m2, extra>>

Next == Load

Spec == Init /\ [][Next]_vars

(***************************************************************************)
(* Properties of LoadRoleManifest (checked under Spec).                    *)
(***************************************************************************)
Declared == manifestFile.doc.Roles
Loaded == pc = "done" /\ ~ret.isNil
KeptDeclared == SelectSeq(Declared, LAMBDA r : IsBoshType(r.Type))
DeclaredGlobal ==
    IF manifestFile.doc.Configuration.isNil \/ manifestFile.doc.Configuration.Templates.isNil
    THEN << >> ELSE manifestFile.doc.Configuration.Templates.m
DeclaredOwn(r) ==
    IF r.Configuration.isNil \/ r.Configuration.Templates.isNil
    THEN << >> ELSE r.Configuration.Templates.m
ErrNames(err) == {err.args[i] : i \in 1..Len(err.args)}
DuplicateNames ==
    {releases[i].Name : i \in {k \in 1..Len(releases) :
                                  \E l \in 1..Len(releases) : l # k /\ releases[l].Name = releases[k].Name}}
LoadedNames == {releases[i].Name : i \in 1..Len(releases)}
JobNamesOf(n) ==
    UNION {{releases[i].Jobs[k].Name : k \in 1..Len(releases[i].Jobs)} :
             i \in {x \in 1..Len(releases) : releases[x].Name = n}}
Resolvable(ref) == ref.ReleaseName \in LoadedNames /\ ref.Name \in JobNamesOf(ref.ReleaseName)
\* the references of the surviving roles that cannot be resolved, as <<role, reference>> indexes
BadRefs ==
    {ix \in (1..Len(KeptDeclared)) \X (1..MaxRefs + 1) :
        /\ ix[2] <= Len(KeptDeclared[ix[1]].JobNameList)
        /\ ~Resolvable(KeptDeclared[ix[1]].JobNameList[ix[2]])}
FirstBadRef ==
    CHOOSE ix \in BadRefs :
        \A iy \in BadRefs : ix[1] < iy[1] \/ (ix[1] = iy[1] /\ ix[2] <= iy[2])
\* the loader reaches a reference to a job missing from a loaded release
MeetsMissingJob ==
    /\ manifestFile.status = "ok"
    /\ DuplicateNames = {}
    /\ BadRefs # {}
    /\ KeptDeclared[FirstBadRef[1]].JobNameList[FirstBadRef[2]].ReleaseName \in LoadedNames

\* C1: after a successful load, Roles holds exactly the declared roles of type "",
\* "bosh" or "bosh-task", in their declared order.
C1_FilterKeepsBoshRolesInOrder ==
    Loaded =>
        /\ Len(rolesManifest.Roles) = Len(KeptDeclared)
        /\ \A i \in 1..Len(KeptDeclared) :
              /\ rolesManifest.Roles[i].Name = KeptDeclared[i].Name
              /\ rolesManifest.Roles[i].Type = KeptDeclared[i].Type
              /\ rolesManifest.Roles[i].JobNameList = KeptDeclared[i].JobNameList

\* two adjacent roles of another type, the first of them declared first, are dropped
C1_Witness ==
    /\ Loaded
    /\ Len(Declared) = 3
    /\ ~IsBoshType(Declared[1].Type) /\ ~IsBoshType(Declared[2].Type)
    /\ Declared[3].Type = boshTaskType
    /\ Len(rolesManifest.Roles) = 1

\* C2: a reference to a job missing from a loaded release makes the load fail with
\* an error that names the job, the release and the role.
C2_MissingJobErrorNamesJobReleaseRole ==
    (pc = "done" /\ MeetsMissingJob) =>
        LET role == KeptDeclared[FirstBadRef[1]]
            ref == role.JobNameList[FirstBadRef[2]]
        IN /\ ret.isNil
           /\ ret.err # NoErr
           /\ {ref.Name, ref.ReleaseName, role.Name} \subseteq ErrNames(ret.err)

\* C3: after a successful load every role's Jobs match its JobNameList one to one and
\* in order, each being the first job of that name in the release of that name.
C3_JobsFollowJobNameList ==
    Loaded =>
        \A i \in 1..Len(rolesManifest.Roles) :
            LET role == rolesManifest.Roles[i]
            IN /\ Len(role.Jobs) = Len(role.JobNameList)
               /\ \A k \in 1..Len(role.JobNameList) :
                     \E x \in 1..Len(releases) :
                        /\ releases[x].Name = role.JobNameList[k].ReleaseName
                        /\ \E y \in 1..Len(releases[x].Jobs) :
                              /\ releases[x].Jobs[y].Name = role.JobNameList[k].Name
                              /\ \A z \in 1..(y - 1) :
                                    releases[x].Jobs[z].Name # role.JobNameList[k].Name
                              /\ role.Jobs[k] = releases[x].Jobs[y]

\* a role with two references, the second to a job name that release A holds twice
C3_Witness ==
    /\ Loaded
    /\ Len(rolesManifest.Roles) = 1
    /\ rolesManifest.Roles[1].JobNameList = << RoleJob(<< "j" >>, << "B" >>), RoleJob(<< "j" >>, << "A" >>) >>
    /\ Len(rolesManifest.Roles[1].Jobs) = 2

\* C7: after a successful load every role's templates are the global templates
\* overridden key by key by the role's declared ones, and the global mapping is
\* non-nil and as declared.
C7_TemplatesAreGlobalOverriddenByRole ==
    Loaded =>
        /\ ~rolesManifest.Configuration.isNil
        /\ ~rolesManifest.Configuration.Templates.isNil
        /\ rolesManifest.Configuration.Templates.m = DeclaredGlobal
        /\ \A i \in 1..Len(rolesManifest.Roles) :
              LET cfg == rolesManifest.Roles[i].Configuration
                  own == DeclaredOwn(KeptDeclared[i])
              IN /\ ~cfg.isNil /\ ~cfg.Templates.isNil
                 /\ DOMAIN cfg.Templates.m = DOMAIN DeclaredGlobal \cup DOMAIN own
                 /\ \A k \in DOMAIN own : cfg.Templates.m[k] = own[k]
                 /\ \A k \in DOMAIN DeclaredGlobal \ DOMAIN own :
                       cfg.Templates.m[k] = DeclaredGlobal[k]

\* a key declared by both with different values, and a key only the global mapping has
C7_Witness ==
    /\ Loaded
    /\ Len(rolesManifest.Roles) = 2
    /\ DOMAIN DeclaredGlobal = KeySet
    /\ DOMAIN DeclaredOwn(Declared[1]) = {<< "a" >>}
    /\ DeclaredOwn(Declared[1])[<< "a" >>] # DeclaredGlobal[<< "a" >>]
    /\ Declared[2].Configuration.isNil

\* C9 as stated: with two releases of one name the load fails with the "loaded more
\* than once" error naming that release, before any role is unmarshalled or processed.
C9_DuplicateReleaseAlwaysLoadedTwiceError ==
    (pc = "done" /\ DuplicateNames # {}) =>
        /\ ret.isNil
        /\ ret.err.fmt = ErrLoadedTwice
        /\ ErrNames(ret.err) \subseteq DuplicateNames
        /\ rolesManifest.Roles = << >>

\* C9, amended: the same, when the manifest file can be read.
C9_DuplicateReleaseRejectedWhenFileReadable ==
    (pc = "done" /\ DuplicateNames # {} /\ manifestFile.status # "unreadable") =>
        /\ ret.isNil
        /\ ret.err.fmt = ErrLoadedTwice
        /\ Len(ret.err.args) = 1
        /\ ErrNames(ret.err) \subseteq DuplicateNames
        /\ rolesManifest.Roles = << >>
        /\ rolesManifest.Configuration.isNil

\* a readable manifest declaring a role, loaded against releases A and A
C9_Witness ==
    /\ pc = "done"
    /\ DuplicateNames # {}
    /\ manifestFile.status = "ok"
    /\ Len(Declared) = 1
    /\ Len(Declared[1].JobNameList) = 2
    /\ ret.isNil

(***************************************************************************)
(* Role-level signatures: inputs and the caller's steps (SpecRole).        *)
(***************************************************************************)
\* package p of release A, the package of that name of release B, and a package o
\* that both releases hold
PkgSet == { Package(<< "p" >>, << "a" >>), Package(<< "p" >>, << "b" >>),
            Package(<< "o" >>, << "c" >>) }
\* a job's package names are looked up in its one release: the packages it lists
\* under one name are one package
NamesResolveOnce(job) ==
    \A k, l \in 1..Len(job.Packages) :
        job.Packages[k].Name = job.Packages[l].Name => job.Packages[k] = job.Packages[l]
\* the release of a job, told by the package p it lists
ReleaseOf(job) ==
    IF \E k \in 1..Len(job.Packages) : job.Packages[k] = Package(<< "p" >>, << "b" >>)
    THEN << "B" >> ELSE << "A" >>
JobShaSet == {<< "1" >>, << "1", "2" >>}

NoScripts == [e |-> << >>, s |-> << >>, p |-> << >>]
LoadedRole(name, jobs, scripts, cfg) ==
    [ Name |-> name, Jobs |-> jobs, EnvironScripts |-> scripts.e, Scripts |-> scripts.s,
      PostConfigScripts |-> scripts.p, Type |-> boshType,
      JobNameList |-> [i \in 1..Len(jobs) |-> RoleJob(jobs[i].Name, ReleaseOf(jobs[i]))],
      Configuration |-> cfg, rolesManifest |-> BackRef(ManifestPath) ]

\* the jobs of a role: checksums shas, and the packages pk dealt to the jobs in order
JobsOf(shas, pk, jobOf) ==
    [i \in 1..Len(shas) |->
        Job(<< "j", Digits[i] >>, shas[i],
            SelectSeq([k \in 1..Len(pk) |-> [at |-> k, pkg |-> pk[k]]],
                      LAMBDA e : jobOf[e.at] = i))]

PkgsOf(job) == [k \in 1..Len(job.Packages) |-> job.Packages[k].pkg]

JobDeals ==
    UNION { UNION { { LET js == JobsOf(shas, pk, jobOf)
                      IN [i \in 1..Len(js) |-> [js[i] EXCEPT !.Packages = PkgsOf(js[i])]] :
                        jobOf \in {f \in [1..Len(pk) -> 1..Len(shas)] :
                                     \A a, b \in 1..Len(pk) : a <= b => f[a] <= f[b]} } :
                    pk \in IF Len(shas) = 0 THEN {<< >>} ELSE SeqsUpTo(PkgSet, MaxPkgs) } :
            shas \in SeqsUpTo(JobShaSet, MaxJobs) }

JobInputsOfRole == {js \in JobDeals : \A i \in 1..Len(js) : NamesResolveOnce(js[i])}

\* a job of release A that lists six packages, and a job of release B that lists the
\* package p of its own release: seven packages, two of them with one name
SixPackages ==
    << Package(<< "p" >>, << "a" >>), Package(<< "q" >>, << "d" >>),
       Package(<< "r" >>, << "e" >>), Package(<< "s" >>, << "h" >>),
       Package(<< "t" >>, << "k" >>), Package(<< "x" >>, << "m" >>) >>
SevenPackageJobs ==
    << Job(<< "j", "1" >>, << "1" >>, SixPackages),
       Job(<< "j", "2" >>, << "1", "2" >>, << Package(<< "p" >>, << "b" >>) >>) >>

OneTemplate == MkCfg(MkMap(<< "a" >> :> << "x" >>))

\* template values that hold the "key: " of another entry
TKeySet == {<< "a" >>, << "b" >>}
TValSet == {<< >>, << "z" >>, << "b", ":", " " >>, << "b", ":", " ", "z" >>}
TemplateMaps == UNION {[D -> TValSet] : D \in SUBSET TKeySet}
TemplateConfigs == {NilCfg, MkCfg(NilMap)} \cup {MkCfg(MkMap(f)) : f \in TemplateMaps}

OneJob == << Job(<< "j", "1" >>, << "1" >>, << Package(<< "p" >>, << "a" >>) >>) >>

\* a plain name, a name that filepath.Join cleans, and an absolute path
ScriptSet == {<< "s" >>, << ".", "/", "t" >>, << "/", "x" >>}
FileOf(name) == Join(Dir(ManifestPath), name)
Present(data) == [exists |-> TRUE, readable |-> TRUE, data |-> data]
Absent == [exists |-> FALSE, readable |-> FALSE, data |-> << >>]
\* a file that opens and fails when read, after data has been copied: a directory
\* (nothing copied), or a file whose reading breaks off
Unreadable(data) == [exists |-> TRUE, readable |-> FALSE, data |-> data]
FsSet == { (FileOf(<< "s" >>) :> Present(<< "x" >>)) @@ (FileOf(<< "t" >>) :> Present(<< "y" >>)),
           (FileOf(<< "s" >>) :> Present(<< "x" >>)) @@ (FileOf(<< "t" >>) :> Absent),
           (FileOf(<< "s" >>) :> Present(<< "x" >>)) @@ (FileOf(<< "t" >>) :> Unreadable(<< >>)) }
ScriptInputs ==
    UNION { { [ e |-> SubSeq(ss, 1, c[1]), s |-> SubSeq(ss, c[1] + 1, c[2]),
                p |-> SubSeq(ss, c[2] + 1, Len(ss)) ] :
                c \in {d \in (0..Len(ss)) \X (0..Len(ss)) : d[1] <= d[2]} } :
            ss \in SeqsUpTo(ScriptSet, MaxScripts) }

InitRole ==
    /\ pc = "start"
    /\ \/ /\ r1 \in {LoadedRole(<< "r", "1" >>, js, NoScripts, OneTemplate) : js \in JobInputsOfRole}
          /\ fs = NoFiles
       \/ /\ r1 = LoadedRole(<< "r", "1" >>, SevenPackageJobs, NoScripts, OneTemplate)
          /\ fs = NoFiles
       \/ /\ r1 \in {LoadedRole(<< "r", "1" >>, OneJob, NoScripts, c) : c \in TemplateConfigs}
          /\ fs = NoFiles
       \/ /\ r1 \in {LoadedRole(<< "r", "1" >>, OneJob, sc, c) :
                        sc \in ScriptInputs, c \in {MkCfg(EmptyMap), OneTemplate}}
          /\ fs \in FsSet
    /\ r2 = r1
    /\ op = NoOp /\ called = "none" /\ v1 = NoResult /\ v2 = NoResult
    /\ LoadIdle
    /\ ManifestIdle

Permute(s, perm) == [i \in 1..Len(s) |-> s[perm[i]]]
Perms(n) == {f \in [1..n -> 1..n] : \A a, b \in 1..n : f[a] = f[b] => a = b}

\* the caller reorders the package list of one job
PermutePackages ==
    /\ pc = "start"
    /\ \E i \in 1..Len(r1.Jobs) : \E perm \in Perms(Len(r1.Jobs[i].Packages)) :
          /\ Permute(r1.Jobs[i].Packages, perm) # r1.Jobs[i].Packages
          /\ r2' = [r1 EXCEPT !.Jobs[i].Packages = Permute(@, perm)]
          /\ op' = [kind |-> "permute", i |-> i, j |-> 0]
    /\ pc' = "changed"
    /\ UNCHANGED <<manifestFile, releases, rolesManifest, ret, r1, fs, called, v1, v2, m1, m2, extra>>

\* the caller swaps two jobs of the role
SwapJobs ==
    /\ pc = "start"
    /\ \E i, j \in 1..Len(r1.Jobs) :
          /\ i < j
          /\ r2' = [r1 EXCEPT !.Jobs[i] = r1.Jobs[j], !.Jobs[j] = r1.Jobs[i],
                              !.JobNameList[i] = r1.JobNameList[j],
                              !.JobNameList[j] = r1.JobNameList[i]]
          /\ op' = [kind |-> "swap", i |-> i, j |-> j]
    /\ pc' = "changed"
    /\ UNCHANGED <<manifestFile, releases, rolesManifest, ret, r1, fs, called, v1, v2, m1, m2, extra>>

\* the caller changes template values, keeping the keys
MutateTemplates ==
    /\ pc = "start"
    /\ ~r1.Configuration.isNil /\ ~r1.Configuration.Templates.isNil
    /\ \E f \in [DOMAIN r1.Configuration.Templates.m -> TValSet] :
          /\ f # r1.Configuration.Templates.m
          /\ r2' = [r1 EXCEPT !.Configuration.Templates.m = f]
    /\ op' = [kind |-> "mutate", i |-> 0, j |-> 0]
    /\ pc' = "changed"
    /\ UNCHANGED <<manifestFile, releases, rolesManifest, ret, r1, fs, called, v1, v2, m1, m2, extra>>

\* the caller asks for the dev version of the role before and after the change
CallGetRoleDevVersion ==
    /\ pc \in {"start", "changed"}
    /\ \E so1 \in ScriptOrders(r1), to1 \in TemplateOrders(r1),
          so2 \in ScriptOrders(r2), to2 \in TemplateOrders(r2), gosort \in GoSorts :
          /\ v1' = GetRoleDevVersion(r1, fs, so1, to1, gosort)
          /\ v2' = GetRoleDevVersion(r2, fs, so2, to2, gosort)
    /\ called' = "GetRoleDevVersion"
    /\ pc' = "done"
    /\ UNCHANGED <<manifestFile, releases, rolesManifest, ret, r1, r2, op, fs, m1, m2, extra>>

\* the caller asks for the template signature before and after the change
CallGetTemplateSignatures ==
    /\ pc \in {"start", "changed"}
    /\ ~r1.Configuration.isNil
    /\ \E to1 \in TemplateOrders(r1), to2 \in TemplateOrders(r2) :
          /\ v1' = GetTemplateSignatures(r1, to1)
          /\ v2' = GetTemplateSignatures(r2, to2)
    /\ called' = "GetTemplateSignatures"
    /\ pc' = "done"
    /\ UNCHANGED <<manifestFile, releases, rolesManifest, ret, r1, r2, op, fs, m1, m2, extra>>

\* the caller asks for the script signature
CallGetScriptSignatures ==
    /\ pc \in {"start", "changed"}
    /\ \E so1 \in ScriptOrders(r1), so2 \in ScriptOrders(r2) :
          /\ v1' = GetScriptSignatures(r1, fs, so1)
          /\ v2' = GetScriptSignatures(r2, fs, so2)
    /\ called' = "GetScriptSignatures"
    /\ pc' = "done"
    /\ UNCHANGED <<manifestFile, releases, rolesManifest, ret, r1, r2, op, fs, m1, m2, extra>>

NextRole ==
    \/ PermutePackages
    \/ SwapJobs
    \/ MutateTemplates
    \/ CallGetRoleDevVersion
    \/ CallGetTemplateSignatures
    \/ CallGetScriptSignatures

SpecRole == InitRole /\ [][NextRole]_vars

(***************************************************************************)
(* Properties of the role-level signatures (checked under SpecRole).       *)
(***************************************************************************)
RECURSIVE SplitLines(_, _)
\* the lines of s, given the line being read; every line of s begins with a newline
SplitLines(s, line) ==
    IF s = << >> THEN << line >>
    ELSE IF Head(s) = "\n" THEN << line >> \o SplitLines(Tail(s), << >>)
    ELSE SplitLines(Tail(s), Append(line, Head(s)))

\* the lines of the string whose digest is version
HashedLines(version) == SplitLines(SubSeq(version, 2, Len(version) - 1), << >>)
Count(lines, x) == Cardinality({i \in 1..Len(lines) : lines[i] = x})
Listings(r, sha) ==
    UNION { { << i, k >> : k \in {l \in 1..Len(r.Jobs[i].Packages) :
                                     r.Jobs[i].Packages[l].SHA1 = sha} } :
            i \in 1..Len(r.Jobs) }
ListedSHA1s(r) ==
    UNION {{r.Jobs[i].Packages[k].SHA1 : k \in 1..Len(r.Jobs[i].Packages)} : i \in 1..Len(r.Jobs)}
DevVersionsReturned == pc = "done" /\ called = "GetRoleDevVersion" /\ v1.err = NoErr /\ v2.err = NoErr

\* C4: reordering the package list of a job, or the order in which the templates are
\* visited, never changes the dev version of the role.
C4_PackageAndTemplateOrderIrrelevant ==
    (DevVersionsReturned /\ op.kind \in {"none", "permute"}) => v1.version = v2.version

\* C5 as stated: swapping two jobs of a role always changes its dev version.
C5_SwappingJobsAlwaysChangesVersion ==
    (DevVersionsReturned /\ op.kind = "swap") => v1.version # v2.version

\* C5, amended: swapping two jobs whose checksums differ changes the dev version.
C5_SwappingDifferentJobsChangesVersion ==
    (DevVersionsReturned /\ op.kind = "swap" /\ r1.Jobs[op.i].SHA1 # r1.Jobs[op.j].SHA1) =>
        v1.version # v2.version

\* two jobs with different checksums that list the same packages are swapped
C5_Witness ==
    /\ DevVersionsReturned
    /\ op.kind = "swap"
    /\ r1.Jobs[op.i].SHA1 # r1.Jobs[op.j].SHA1
    /\ r1.Jobs[op.i].Packages = r1.Jobs[op.j].Packages
    /\ Len(r1.Jobs[op.i].Packages) = 1

\* C6: changing template values (same keys) always changes the template signature.
C6_MutatedTemplatesChangeSignature ==
    (pc = "done" /\ called = "GetTemplateSignatures" /\ op.kind = "mutate") =>
        v1.version # v2.version

\* C10 as stated: a package that two or more jobs of the role refer to contributes
\* its checksum exactly once.
C10_SharedPackageChecksumOnce ==
    (DevVersionsReturned /\ op.kind = "none") =>
        \A sha \in ListedSHA1s(r1) :
            Cardinality({ix[1] : ix \in Listings(r1, sha)}) >= 2 =>
                Count(HashedLines(v1.version), sha) = 1

\* C10, amended: a package contributes its checksum once per job that lists it
\* (once per entry of the jobs' package lists).
C10_PackageChecksumOncePerListing ==
    (DevVersionsReturned /\ op.kind = "none") =>
        \A sha \in ListedSHA1s(r1) :
            Count(HashedLines(v1.version), sha) = Cardinality(Listings(r1, sha))

\* two jobs of the role list the same package
C10_Witness ==
    /\ DevVersionsReturned /\ op.kind = "none"
    /\ Len(r1.Jobs) = 2
    /\ \E k \in 1..Len(r1.Jobs[1].Packages) : \E l \in 1..Len(r1.Jobs[2].Packages) :
          r1.Jobs[1].Packages[k] = r1.Jobs[2].Packages[l]

(***************************************************************************)
(* Manifest-level version: inputs and the caller's steps (SpecManifest).   *)
(***************************************************************************)
\* two roles named a with different jobs, and a role named b
MRoleSet ==
    { LoadedRole(<< "a" >>, << Job(<< "j", "1" >>, << "1" >>, << >>) >>, NoScripts, OneTemplate),
      LoadedRole(<< "a" >>, << Job(<< "j", "2" >>, << "2" >>, << >>) >>, NoScripts, OneTemplate),
      LoadedRole(<< "b" >>, << Job(<< "j", "1" >>, << "1" >>, << >>) >>, NoScripts, MkCfg(EmptyMap)) }
SaltSet == {<< >>, << "x" >>}

LoadedManifest(roles) ==
    [Roles |-> roles, Configuration |-> MkCfg(EmptyMap), manifestFilePath |-> ManifestPath]

InitManifest ==
    /\ pc = "start"
    /\ m1 \in {LoadedManifest(rs) : rs \in SeqsUpTo(MRoleSet, MaxMRoles)}
    /\ m2 = m1
    /\ extra \in SaltSet
    /\ op = NoOp /\ called = "none" /\ v1 = NoResult /\ v2 = NoResult
    /\ LoadIdle
    /\ RoleIdle

\* the roles of the manifest are stored in another order
PermuteRoles ==
    /\ pc = "start"
    /\ \E perm \in Perms(Len(m1.Roles)) :
          /\ Permute(m1.Roles, perm) # m1.Roles
          /\ m2' = [m1 EXCEPT !.Roles = Permute(@, perm)]
    /\ op' = [kind |-> "permute_roles", i |-> 0, j |-> 0]
    /\ pc' = "changed"
    /\ UNCHANGED <<manifestFile, releases, rolesManifest, ret, r1, r2, fs, called, v1, v2, m1, extra>>

\* the caller asks for the version of the manifest in both orders
CallGetRoleManifestDevPackageVersion ==
    /\ pc \in {"start", "changed"}
    /\ \E gosort \in GoSorts :
       \E os1 \in RoleOrders(SortedRolesCopy(m1.Roles, gosort)),
          os2 \in RoleOrders(SortedRolesCopy(m2.Roles, gosort)) :
          /\ v1' = GetRoleManifestDevPackageVersion(m1, extra, fs, os1, gosort)
          /\ v2' = GetRoleManifestDevPackageVersion(m2, extra, fs, os2, gosort)
    /\ called' = "GetRoleManifestDevPackageVersion"
    /\ pc' = "done"
    /\ UNCHANGED <<manifestFile, releases, rolesManifest, ret, r1, r2, op, fs, m1, m2, extra>>

NextManifest == PermuteRoles \/ CallGetRoleManifestDevPackageVersion

SpecManifest == InitManifest /\ [][NextManifest]_vars

\* C8: the version of the manifest does not depend on the order in which its roles
\* are stored, and asking for it leaves that order as it was.
C8_ManifestVersionIgnoresRoleOrder ==
    (pc = "done" /\ called = "GetRoleManifestDevPackageVersion") =>
        /\ v1.err = NoErr /\ v2.err = NoErr
        /\ v1.version = v2.version
        /\ v1.after = m1.Roles
        /\ v2.after = m2.Roles

(***************************************************************************)
(* What follows the checksums in the role signature (SpecRole).            *)
(***************************************************************************)
NumChecksums(r) == Len(r.Jobs) + Len(AllPackages(r.Jobs))
DeclaresScripts(r) == r.EnvironScripts \o r.Scripts \o r.PostConfigScripts # << >>
HasTemplates(r) ==
    /\ ~r.Configuration.isNil /\ ~r.Configuration.Templates.isNil
    /\ DOMAIN r.Configuration.Templates.m # {}
TemplatesNonNil(r) == ~r.Configuration.isNil /\ ~r.Configuration.Templates.isNil
EmptyDigest == << "{", "}" >>
\* the lines of the hashed string after the empty piece before the first newline
SignatureLines(version) == Tail(HashedLines(version))

\* C11 as stated: the script signature is appended only if the role declares a
\* script, the template signature only if it has a template; with neither, the hashed
\* string holds the job and package checksums only.
C11_DigestsOnlyWhenScriptsOrTemplates ==
    (DevVersionsReturned /\ op.kind = "none") =>
        Len(SignatureLines(v1.version)) =
            NumChecksums(r1) + (IF DeclaresScripts(r1) THEN 1 ELSE 0)
                             + (IF HasTemplates(r1) THEN 1 ELSE 0)

\* C11, amended: after the checksums the script signature is always appended (the
\* digest of no bytes when no file is hashed), and the template signature whenever
\* Configuration and Templates are non-nil (the digest of no bytes for an empty map).
C11_ScriptDigestAlwaysTemplateDigestWhenNonNil ==
    (DevVersionsReturned /\ op.kind = "none") =>
        LET lines == SignatureLines(v1.version)
            n == NumChecksums(r1)
        IN /\ Len(lines) = n + 1 + (IF TemplatesNonNil(r1) THEN 1 ELSE 0)
           /\ \A i \in 1..Len(r1.Jobs) : lines[i] = r1.Jobs[i].SHA1
           /\ \A i \in (Len(r1.Jobs) + 1)..n : lines[i] \in ListedSHA1s(r1)
           /\ Head(lines[n + 1]) = "{"
           /\ DOMAIN GetScriptPaths(r1) = {} => lines[n + 1] = EmptyDigest
           /\ TemplatesNonNil(r1) =>
                 /\ Head(lines[n + 2]) = "{"
                 /\ DOMAIN r1.Configuration.Templates.m = {} => lines[n + 2] = EmptyDigest

\* a loaded role with a job and a package, no scripts and an empty template map
C11_Witness ==
    /\ DevVersionsReturned /\ op.kind = "none"
    /\ ~DeclaresScripts(r1)
    /\ TemplatesNonNil(r1) /\ ~HasTemplates(r1)
    /\ NumChecksums(r1) = 2
    /\ Len(SignatureLines(v1.version)) = 4

====
